---- MODULE Spec2Model ----
(***************************************************************************)
(* Session authentication of the FastAPI text-to-speech starter            *)
(* (src/app.py): the in-memory nonce store, the nonce-gated issuance of    *)
(* HS256 session tokens, the bearer-token check that protects              *)
(* POST /api/text-to-speech, and the error mapping of the synthesis        *)
(* handler.                                                                *)
(*                                                                         *)
(* Time.  time.time() is a float; the model counts the wall clock in ticks *)
(* of 1/TicksPerSec second so that int(time.time()) is a real truncation.  *)
(* The clock never runs backwards.  Every handler is an `async def`        *)
(* without an await, so the event loop runs it to completion: one action   *)
(* per handler.  A handler that reads the clock more than once may see it  *)
(* advance by one tick between two reads.                                  *)
(* A request is handled in one step and its response goes out in the next  *)
(* (Respond); the loop takes up the next request after that.               *)
(*                                                                         *)
(* Randomness.  secrets.token_hex(16) is modelled as a fresh identifier:   *)
(* a nonce is never generated twice and is never guessed by a client       *)
(* before it was handed out.                                               *)
(*                                                                         *)
(* Signatures.  HS256 is modelled as an ideal MAC: the signature is the    *)
(* triple (key, iat, exp), so it verifies exactly when key and payload are *)
(* the ones that were signed.  jwt.decode is PyJWT 2.x: signature first,   *)
(* then `exp <= now` raises ExpiredSignatureError.                         *)
(*                                                                         *)
(* Spec is the server with its four endpoints.  StoreSpec is the nonce     *)
(* store alone, its three functions called in any order.                   *)
(***************************************************************************)
EXTENDS Integers, Sequences, FiniteSets, TLC

\* ------------------------------------------------------------------ bounds
\* clock resolution: ticks per second
TicksPerSec == 2
\* number of nonces the page handler may hand out
MaxNonces == 2
\* number of session tokens clients keep
MaxTokens == 1
\* number of times the clock may advance
MaxTicks == 2

\* ---------------------------------------------------- program constants
NONCE_TTL == 5 * 60
JWT_EXPIRY == 3600

\* x_session_nonce: Header(None) absent, an empty header value, and a hex
\* string the store never issued; issued nonces are 1..MaxNonces
NoHeader == 0 - 2
EmptyHeader == 0 - 1
UnknownNonce == 0
NonceIds == 1..MaxNonces

\* the secret of os.environ["SESSION_SECRET"], the one of secrets.token_hex(32)
\* and a key that is not the process's
EnvSecret == "env-secret"
GeneratedSecret == "generated-secret"
ForeignSecret == "foreign-secret"

\* seconds (float) -> ticks, and int(time.time()) of a clock reading
Ticks(sec) == sec * TicksPerSec
IntSeconds(now) == now \div TicksPerSec

\* the clock steps between two requests: the next instant, just short of
\* the nonce lifetime, just short of the token lifetime
Deltas == {1, Ticks(NONCE_TTL) - 1, Ticks(JWT_EXPIRY) - 1}
\* the clock steps between two clock reads of one handler
ReadGaps == {0, 1}

VARIABLES
    REQUIRE_NONCE,        \* bool(os.environ.get("SESSION_SECRET"))
    SESSION_SECRET,       \* the signing key of the process
    index_html_template,  \* TRUE iff frontend/dist/index.html was read
    session_nonces,       \* nonce -> expiry (ticks)
    clock,                \* time.time() in ticks
    nticks,               \* how often the clock advanced
    genExpiry,            \* history: nonce -> expiry it was generated with, -1 before
    consumeHistory,       \* history: nonce -> "none" before its first consume_nonce
                          \* call, "true" once a call returned True, else "false"
    uncleaned,            \* history: the store of the same generate_nonce and
                          \* consume_nonce calls had cleanup_nonces never run
    tokensIssued,         \* history: how many tokens get_session has issued,
                          \* counted up to one more than there can be nonces
    tokens,               \* the session tokens clients hold
    last                  \* the request just handled and its response

vars == <<REQUIRE_NONCE, SESSION_SECRET, index_html_template, session_nonces,
          clock, nticks, genExpiry, consumeHistory, uncleaned, tokensIssued, tokens, last>>

\* ------------------------------------------------------------ nonce store
\* a removal that removes nothing
Without_Keep(m, k) == m

\* the mapping m without key k (dict.pop / del)
Without(m, k) == [x \in DOMAIN m \ {k} |-> m[x]]

\* a generate_nonce that rebinds the store to a new dict
generate_nonce_Rebind(store, nonce, now) ==
    [x \in {nonce} |-> now + Ticks(NONCE_TTL)]

\* generate_nonce: session_nonces[nonce] = time.time() + NONCE_TTL
generate_nonce(store, nonce, now) ==
    [x \in DOMAIN store \cup {nonce} |->
        IF x = nonce THEN now + Ticks(NONCE_TTL) ELSE store[x]]

\* a consume_nonce that looks the nonce up without removing it
consume_nonce_NoPop(store, nonce, now) ==
    [store  |-> store,
     result |-> nonce \in DOMAIN store /\ now < store[nonce]]

\* a consume_nonce that forgets the expiry comparison
consume_nonce_NoExpiry(store, nonce, now) ==
    [store  |-> Without(store, nonce),
     result |-> nonce \in DOMAIN store]

\* a consume_nonce that removes the nonce only when it accepts it
consume_nonce_PopValid(store, nonce, now) ==
    [store  |-> IF nonce \in DOMAIN store /\ now < store[nonce]
                THEN Without(store, nonce) ELSE store,
     result |-> nonce \in DOMAIN store /\ now < store[nonce]]

\* consume_nonce: expiry = session_nonces.pop(nonce, None);
\* False when None, else time.time() < expiry
consume_nonce(store, nonce, now) ==
    [store  |-> Without(store, nonce),
     result |-> nonce \in DOMAIN store /\ now < store[nonce]]

\* a cleanup_nonces that empties the store
cleanup_nonces_EvictAll(store, now) == [x \in {} |-> 0]

\* a cleanup_nonces that keeps an entry at its expiry instant
cleanup_nonces_KeepAtExpiry(store, now) ==
    [x \in {k \in DOMAIN store : ~(now > store[k])} |-> store[x]]

\* a cleanup_nonces with the comparison turned around
cleanup_nonces_Inverted(store, now) ==
    [x \in {k \in DOMAIN store : ~(now <= store[k])} |-> store[x]]

\* cleanup_nonces: delete every k with now >= session_nonces[k]
cleanup_nonces(store, now) ==
    [x \in {k \in DOMAIN store : ~(now >= store[k])} |-> store[x]]

\* -------------------------------------------------------- session tokens
\* the HS256 signature of the payload {iat, exp} under key
HS256(key, iat, exp) == <<key, iat, exp>>

\* jwt.encode({"iat": iat, "exp": exp}, key, algorithm="HS256")
jwt_encode(iat, exp, key) ==
    [fmt |-> "jwt", iat |-> iat, exp |-> exp, sig |-> HS256(key, iat, exp)]

\* a string that is no JWT at all
Garbage == [fmt |-> "garbage", iat |-> 0, exp |-> 0, sig |-> HS256("", 0, 0)]

\* a jwt.decode that still accepts the token at its expiry instant
jwt_decode_LateExpiry(token, key, now) ==
    IF token.fmt # "jwt" THEN "InvalidTokenError"
    ELSE IF token.sig # HS256(key, token.iat, token.exp) THEN "InvalidTokenError"
    ELSE IF Ticks(token.exp) < now THEN "ExpiredSignatureError"
    ELSE "ok"

\* jwt.decode(token, key, algorithms=["HS256"]) at clock reading now:
\* DecodeError and InvalidSignatureError are InvalidTokenErrors
jwt_decode(token, key, now) ==
    IF token.fmt # "jwt" THEN "InvalidTokenError"
    ELSE IF token.sig # HS256(key, token.iat, token.exp) THEN "InvalidTokenError"
    ELSE IF Ticks(token.exp) <= now THEN "ExpiredSignatureError"
    ELSE "ok"

\* ---------------------------------------------------------------- strings
\* A Python str is a sequence of one-character strings, so that lower(),
\* strip(), str() and `in` are computed, not assumed.
UpperCase == <<"A","B","C","D","E","F","G","H","I","J","K","L","M",
               "N","O","P","Q","R","S","T","U","V","W","X","Y","Z">>
LowerCase == <<"a","b","c","d","e","f","g","h","i","j","k","l","m",
               "n","o","p","q","r","s","t","u","v","w","x","y","z">>
Digit == <<"0","1","2","3","4","5","6","7","8","9">>
Whitespace == {" ", "\t", "\n"}

\* str.lower()
LowerChar(c) ==
    IF \E i \in 1..Len(UpperCase) : UpperCase[i] = c
    THEN LowerCase[CHOOSE i \in 1..Len(UpperCase) : UpperCase[i] = c]
    ELSE c
Lower(s) == [i \in 1..Len(s) |-> LowerChar(s[i])]

\* kw in s
Contains(s, kw) ==
    \E i \in 1..(Len(s) - Len(kw) + 1) : SubSeq(s, i, i + Len(kw) - 1) = kw

\* str.strip()
RECURSIVE LStrip(_)
LStrip(s) == IF s # <<>> /\ Head(s) \in Whitespace THEN LStrip(Tail(s)) ELSE s
RECURSIVE RStrip(_)
RStrip(s) ==
    IF s # <<>> /\ s[Len(s)] \in Whitespace
    THEN RStrip(SubSeq(s, 1, Len(s) - 1)) ELSE s
Strip(s) == RStrip(LStrip(s))

\* str(n) of a natural number
RECURSIVE StrOfNat(_)
StrOfNat(n) ==
    IF n < 10 THEN <<Digit[n + 1]>>
    ELSE StrOfNat(n \div 10) \o <<Digit[(n % 10) + 1]>>

\* "Authorization header with Bearer token is required"
MSG_MISSING_TOKEN ==
    <<"A","u","t","h","o","r","i","z","a","t","i","o","n"," ","h","e","a",
      "d","e","r"," ","w","i","t","h"," ","B","e","a","r","e","r"," ","t",
      "o","k","e","n"," ","i","s"," ","r","e","q","u","i","r","e","d">>

\* "Session expired, please refresh the page"
MSG_SESSION_EXPIRED ==
    <<"S","e","s","s","i","o","n"," ","e","x","p","i","r","e","d",","," ",
      "p","l","e","a","s","e"," ","r","e","f","r","e","s","h"," ","t","h",
      "e"," ","p","a","g","e">>

\* "Invalid session token"
MSG_INVALID_TOKEN ==
    <<"I","n","v","a","l","i","d"," ","s","e","s","s","i","o","n"," ","t",
      "o","k","e","n">>

\* "Valid session nonce required. Please refresh the page."
MSG_INVALID_NONCE ==
    <<"V","a","l","i","d"," ","s","e","s","s","i","o","n"," ","n","o","n",
      "c","e"," ","r","e","q","u","i","r","e","d","."," ","P","l","e","a",
      "s","e"," ","r","e","f","r","e","s","h"," ","t","h","e"," ","p","a",
      "g","e",".">>

\* "Text required"
MSG_TEXT_REQUIRED ==
    <<"T","e","x","t"," ","r","e","q","u","i","r","e","d">>

\* "Text exceeds maximum allowed length"
MSG_TEXT_TOO_LONG ==
    <<"T","e","x","t"," ","e","x","c","e","e","d","s"," ","m","a","x","i",
      "m","u","m"," ","a","l","l","o","w","e","d"," ","l","e","n","g","t",
      "h">>

\* "TTS synthesis failed"
MSG_SYNTHESIS_FAILED ==
    <<"T","T","S"," ","s","y","n","t","h","e","s","i","s"," ","f","a","i",
      "l","e","d">>

\* "Frontend not built. Run make build first."
MSG_NOT_BUILT ==
    <<"F","r","o","n","t","e","n","d"," ","n","o","t"," ","b","u","i","l",
      "t","."," ","R","u","n"," ","m","a","k","e"," ","b","u","i","l","d",
      " ","f","i","r","s","t",".">>

\* "Invalid request"
MSG_INVALID_REQUEST ==
    <<"I","n","v","a","l","i","d"," ","r","e","q","u","e","s","t">>

\* "Metadata read failed"
MSG_METADATA_FAILED ==
    <<"M","e","t","a","d","a","t","a"," ","r","e","a","d"," ","f","a","i",
      "l","e","d">>

\* "too long"
KW_TOO_LONG ==
    <<"t","o","o"," ","l","o","n","g">>

\* "length"
KW_LENGTH ==
    <<"l","e","n","g","t","h">>

\* "limit"
KW_LIMIT ==
    <<"l","i","m","i","t">>

\* "exceed"
KW_EXCEED ==
    <<"e","x","c","e","e","d">>

\* "Text too long"
UP_TEXT_TOO_LONG ==
    <<"T","e","x","t"," ","t","o","o"," ","l","o","n","g">>

\* "Rate limit hit"
UP_RATE_LIMIT ==
    <<"R","a","t","e"," ","l","i","m","i","t"," ","h","i","t">>

\* "Bad gateway"
UP_BAD_GATEWAY ==
    <<"B","a","d"," ","g","a","t","e","w","a","y">>

\* ------------------------------------------------------------- responses
\* HTTPException(status_code, detail={"error": {type, code, message}})
HTTPExceptionDict(status, type, code, message) ==
    [status |-> status, hasError |-> TRUE,
     type |-> type, code |-> code, detail |-> message]

\* HTTPException(status_code, detail="...")
HTTPExceptionStr(status, detail) ==
    [status |-> status, hasError |-> FALSE,
     type |-> "", code |-> "", detail |-> detail]

\* an exception of the upstream SDK with message msg
UpstreamException(msg) ==
    [status |-> 0, hasError |-> FALSE, type |-> "", code |-> "", detail |-> msg]

\* str(e): Starlette's HTTPException prints "<status_code>: <detail>",
\* any other exception prints its message
StrOfException(e) ==
    IF e.status # 0 THEN StrOfNat(e.status) \o <<":", " ">> \o e.detail
    ELSE e.detail

\* the handler FastAPI installs by default: the body is {"detail": ...},
\* without an "error" object
http_exception_handler_Default(exc) ==
    [status |-> exc.status, type |-> "", code |-> "", message |-> exc.detail]

\* http_exception_handler: a dict detail holding "error" is the body; any
\* other detail becomes a SynthesisError body around str(detail)
http_exception_handler(exc) ==
    IF exc.hasError
    THEN [status |-> exc.status, type |-> exc.type, code |-> exc.code,
          message |-> exc.detail]
    ELSE [status |-> exc.status, type |-> "SynthesisError",
          code |-> "SYNTHESIS_FAILED", message |-> exc.detail]

\* validation_exception_handler
validation_exception_handler ==
    [status |-> 400, type |-> "ValidationError", code |-> "INVALID_INPUT",
     message |-> MSG_INVALID_REQUEST]

\* a 200 response
OkResponse == [status |-> 200, type |-> "", code |-> "", message |-> <<>>]

\* ------------------------------------------------------- require_session
\* Authorization header: absent, present without the "Bearer " prefix, or
\* "Bearer " followed by authorization[7:]
NoAuthorization == [present |-> FALSE, bearer |-> FALSE, token |-> Garbage]
BasicAuthorization == [present |-> TRUE, bearer |-> FALSE, token |-> Garbage]
Bearer(token) == [present |-> TRUE, bearer |-> TRUE, token |-> token]

NoException == HTTPExceptionStr(0, <<>>)

\* a require_session that lets an expired token through
require_session_IgnoreExpired(authorization, secret, now) ==
    IF ~authorization.present \/ ~authorization.bearer
    THEN [ok |-> FALSE,
          exc |-> HTTPExceptionDict(401, "AuthenticationError",
                                    "MISSING_TOKEN", MSG_MISSING_TOKEN)]
    ELSE IF jwt_decode(authorization.token, secret, now) = "InvalidTokenError"
    THEN [ok |-> FALSE,
          exc |-> HTTPExceptionDict(401, "AuthenticationError",
                                    "INVALID_TOKEN", MSG_INVALID_TOKEN)]
    ELSE [ok |-> TRUE, exc |-> NoException]

\* a require_session that reports an expired token with the other message
require_session_OneMessage(authorization, secret, now) ==
    IF ~authorization.present \/ ~authorization.bearer
    THEN [ok |-> FALSE,
          exc |-> HTTPExceptionDict(401, "AuthenticationError",
                                    "MISSING_TOKEN", MSG_MISSING_TOKEN)]
    ELSE IF jwt_decode(authorization.token, secret, now) # "ok"
    THEN [ok |-> FALSE,
          exc |-> HTTPExceptionDict(401, "AuthenticationError",
                                    "INVALID_TOKEN", MSG_INVALID_TOKEN)]
    ELSE [ok |-> TRUE, exc |-> NoException]

\* require_session
require_session(authorization, secret, now) ==
    IF ~authorization.present \/ ~authorization.bearer
    THEN [ok |-> FALSE,
          exc |-> HTTPExceptionDict(401, "AuthenticationError",
                                    "MISSING_TOKEN", MSG_MISSING_TOKEN)]
    ELSE IF jwt_decode(authorization.token, secret, now) = "ExpiredSignatureError"
    THEN [ok |-> FALSE,
          exc |-> HTTPExceptionDict(401, "AuthenticationError",
                                    "INVALID_TOKEN", MSG_SESSION_EXPIRED)]
    ELSE IF jwt_decode(authorization.token, secret, now) = "InvalidTokenError"
    THEN [ok |-> FALSE,
          exc |-> HTTPExceptionDict(401, "AuthenticationError",
                                    "INVALID_TOKEN", MSG_INVALID_TOKEN)]
    ELSE [ok |-> TRUE, exc |-> NoException]

\* ------------------------------------------------------------ synthesize
\* deepgram.speak.v1.audio.generate(...): audio, or an exception that is or
\* is not about the length of the text
UpstreamOk == [ok |-> TRUE, kind |-> "", message |-> <<>>]
UpstreamError(kind, msg) == [ok |-> FALSE, kind |-> kind, message |-> msg]
UpstreamOutcomes ==
    {UpstreamOk,
     UpstreamError("text_length", UP_TEXT_TOO_LONG),
     UpstreamError("other", UP_RATE_LIMIT),
     UpstreamError("other", UP_BAD_GATEWAY)}

\* the keywords of the length check
LengthKeywords == {KW_TOO_LONG, KW_LENGTH, KW_LIMIT, KW_EXCEED}

\* not body.text or not body.text.strip()
IsBlank(text) == text = <<>> \/ Strip(text) = <<>>

\* the except branch: the exception e of the try block becomes an
\* HTTPException
synthesize_except(e) ==
    IF \E kw \in LengthKeywords : Contains(Lower(StrOfException(e)), kw)
    THEN HTTPExceptionDict(400, "ValidationError", "TEXT_TOO_LONG",
                           MSG_TEXT_TOO_LONG)
    ELSE HTTPExceptionStr(500, MSG_SYNTHESIS_FAILED)

\* the body of synthesize for a request whose token and body were accepted;
\* up is what the upstream does if it is called
synthesize(text, up) ==
    IF IsBlank(text)
    THEN [upstream |-> FALSE,
          resp |-> http_exception_handler(
                       synthesize_except(HTTPExceptionStr(400, MSG_TEXT_REQUIRED)))]
    ELSE IF up.ok
    THEN [upstream |-> TRUE, resp |-> OkResponse]
    ELSE [upstream |-> TRUE,
          resp |-> http_exception_handler(
                       synthesize_except(UpstreamException(up.message)))]

\* ----------------------------------------------------------------- state
EmptyStore == [x \in {} |-> 0]

\* request texts: empty, blank, and one with a letter
Texts == {<<>>, <<" ", "\t">>, <<" ", "a", " ">>}

\* the record of a handled request; a handler fills in its own fields
NoRecord ==
    [op |-> "none", status |-> 0, type |-> "", code |-> "", message |-> <<>>,
     nonce |-> NoHeader, consumeCalled |-> FALSE, found |-> FALSE,
     consumed |-> FALSE,
     prior |-> "none", raced |-> FALSE, issued |-> FALSE, token |-> Garbage,
     at |-> 0, auth |-> NoAuthorization, authOk |-> FALSE,
     hasText |-> FALSE, text |-> <<>>,
     upstream |-> FALSE, up |-> UpstreamOk]

Responded(rec, resp) ==
    [rec EXCEPT !.status = resp.status, !.type = resp.type,
                !.code = resp.code, !.message = resp.message]

\* the nonces generate_nonce has returned so far
Generated == {n \in NonceIds : genExpiry[n] >= 0}

\* what a client can send as X-Session-Nonce
HeaderValues == {NoHeader, EmptyHeader, UnknownNonce} \cup Generated

\* what a client can put behind "Bearer ": a token it was given, such a
\* token with its expiry pushed back, a token signed with another key, or
\* a string that is no token
Altered(t) == [t EXCEPT !.exp = t.exp + JWT_EXPIRY]
Forged(now) ==
    jwt_encode(IntSeconds(now), IntSeconds(now) + JWT_EXPIRY, ForeignSecret)
AuthorizationHeaders ==
    {NoAuthorization, BasicAuthorization, Bearer(Garbage), Bearer(Forged(clock))}
    \cup {Bearer(t) : t \in tokens} \cup {Bearer(Altered(t)) : t \in tokens}

Init ==
    /\ REQUIRE_NONCE \in BOOLEAN
    /\ SESSION_SECRET = IF REQUIRE_NONCE THEN EnvSecret ELSE GeneratedSecret
    /\ index_html_template \in BOOLEAN
    /\ session_nonces = EmptyStore
    /\ clock = 0
    /\ nticks = 0
    /\ genExpiry = [n \in NonceIds |-> 0 - 1]
    /\ consumeHistory = [n \in NonceIds |-> "none"]
    /\ uncleaned = EmptyStore
    /\ tokensIssued = 0
    /\ tokens = {}
    /\ last = NoRecord

config == <<REQUIRE_NONCE, SESSION_SECRET, index_html_template>>

\* the event loop runs one handler at a time: it takes up a request when no
\* response is left to send
Idle == last = NoRecord

\* the response of the request just handled goes out
Respond ==
    /\ ~Idle
    /\ last' = NoRecord
    /\ UNCHANGED <<config, session_nonces, clock, nticks, genExpiry,
                   consumeHistory, uncleaned, tokensIssued, tokens>>

\* time passes between two requests; no request is being answered
Tick ==
    \E d \in Deltas :
        /\ nticks < MaxTicks
        /\ clock' = clock + d
        /\ nticks' = nticks + 1
        /\ last' = NoRecord
        /\ UNCHANGED <<config, session_nonces, genExpiry, consumeHistory,
                       uncleaned, tokensIssued, tokens>>

\* GET / (serve_index)
ServeIndex ==
    IF ~index_html_template
    THEN /\ Idle
         /\ last' = Responded([NoRecord EXCEPT !.op = "index", !.at = clock],
                        http_exception_handler(HTTPExceptionStr(404, MSG_NOT_BUILT)))
         /\ UNCHANGED <<config, session_nonces, clock, nticks, genExpiry,
                        consumeHistory, uncleaned, tokensIssued, tokens>>
    ELSE \E gap \in ReadGaps :
         LET nonce == Cardinality(Generated) + 1
             now1 == clock
             now2 == clock + gap
             store == generate_nonce(cleanup_nonces(session_nonces, now1),
                                     nonce, now2)
         IN  /\ Idle
             /\ nonce \in NonceIds
             /\ nticks + gap <= MaxTicks
             /\ session_nonces' = store
             /\ clock' = now2
             /\ nticks' = nticks + gap
             /\ genExpiry' = [genExpiry EXCEPT ![nonce] = store[nonce]]
             /\ uncleaned' = generate_nonce(uncleaned, nonce, now2)
             /\ last' = Responded([NoRecord EXCEPT !.op = "index",
                                       !.nonce = nonce, !.at = now2], OkResponse)
             /\ UNCHANGED <<config, consumeHistory, tokensIssued, tokens>>

InvalidNonce ==
    HTTPExceptionDict(403, "AuthenticationError", "INVALID_NONCE",
                      MSG_INVALID_NONCE)

\* the token of get_session from its two clock readings
session_token(nowIat, nowExp, secret) ==
    jwt_encode(IntSeconds(nowIat), IntSeconds(nowExp) + JWT_EXPIRY, secret)

\* the tokens clients hold once token is handed out: at most MaxTokens, an
\* older one is thrown away to make room
Kept(held, token) ==
    IF Cardinality(held \cup {token}) <= MaxTokens
    THEN {held \cup {token}}
    ELSE {(held \ {old}) \cup {token} : old \in held \ {token}}

\* a get_session that checks the nonce whatever the mode
nonce_checked_Always(require, x_session_nonce) == TRUE

\* a get_session that checks the nonce whenever one is sent
nonce_checked_IfSent(require, x_session_nonce) ==
    require \/ x_session_nonce \notin {NoHeader, EmptyHeader}

\* a get_session that never checks the nonce
nonce_checked_Never(require, x_session_nonce) == FALSE

\* get_session, `if REQUIRE_NONCE`: is the nonce checked at all
nonce_checked(require, x_session_nonce) == require

\* get_session, `not x_session_nonce`: None or ""
header_missing(x_session_nonce) == x_session_nonce \in {NoHeader, EmptyHeader}

\* what a GET /api/session handler reads and writes
Serving ==
    [store |-> session_nonces, history |-> consumeHistory,
     uncleaned |-> uncleaned, clock |-> clock, nticks |-> nticks,
     issued |-> tokensIssued, tokens |-> tokens]

\* get_session for a request with header h, run from s: every state and
\* response the handler can end with. raced says that a request with the same
\* nonce, in flight at the same time, was granted a token
get_session(s, h, raced) ==
    LET checked == nonce_checked(REQUIRE_NONCE, h)
        called == checked /\ ~header_missing(h)
        c == consume_nonce(s.store, h, s.clock)
        granted == ~checked \/ (called /\ c.result)
        tracked == called /\ h \in NonceIds
        rec == [NoRecord EXCEPT !.op = "session", !.nonce = h, !.at = s.clock,
                    !.consumeCalled = called,
                    !.found = called /\ h \in DOMAIN s.store,
                    !.consumed = called /\ c.result,
                    !.prior = IF tracked THEN s.history[h] ELSE "none",
                    !.raced = raced]
        after == [s EXCEPT
                    !.store = IF called THEN c.store ELSE @,
                    !.uncleaned = IF called
                        THEN consume_nonce(@, h, s.clock).store ELSE @,
                    !.history = IF tracked
                        THEN [@ EXCEPT ![h] =
                                IF c.result \/ @ = "true" THEN "true" ELSE "false"]
                        ELSE @]
        gaps == {g \in (IF called THEN ReadGaps ELSE {0}) \X ReadGaps :
                    s.nticks + g[1] + g[2] <= MaxTicks}
    IN  IF ~granted
        THEN {[state |-> after,
               rec |-> Responded(rec, http_exception_handler(InvalidNonce))]}
        ELSE UNION {
                LET nowIat == s.clock + g[1]
                    nowExp == nowIat + g[2]
                    token == session_token(nowIat, nowExp, SESSION_SECRET)
                IN  {[state |-> [after EXCEPT !.clock = nowExp,
                                     !.nticks = @ + g[1] + g[2],
                                     !.issued = IF @ <= MaxNonces
                                                THEN @ + 1 ELSE @,
                                     !.tokens = held],
                      rec |-> Responded([rec EXCEPT !.issued = TRUE,
                                             !.token = token], OkResponse)]
                     : held \in Kept(s.tokens, token)}
                : g \in gaps}

\* the handler has run and ended with done
Served(done) ==
    /\ session_nonces' = done.state.store
    /\ consumeHistory' = done.state.history
    /\ uncleaned' = done.state.uncleaned
    /\ clock' = done.state.clock
    /\ nticks' = done.state.nticks
    /\ tokensIssued' = done.state.issued
    /\ tokens' = done.state.tokens
    /\ last' = done.rec
    /\ UNCHANGED <<config, genExpiry>>

\* GET /api/session
GetSession ==
    /\ Idle
    /\ \E h \in HeaderValues :
        \E done \in get_session(Serving, h, FALSE) : Served(done)

\* two GET /api/session requests with the same nonce in flight at once: the
\* handler has no await, so the event loop runs it for one request to its
\* end and then for the other
GetSessionConcurrent ==
    /\ Idle
    /\ \E h \in Generated :
        \E first \in get_session(Serving, h, FALSE) :
            \E second \in get_session(first.state, h, first.rec.consumed) :
                Served(second)

\* synthesize on every text and upstream outcome
Synthesized == [text \in Texts, up \in UpstreamOutcomes |-> synthesize(text, up)]

\* a POST /api/text-to-speech whose session check also sweeps the nonce store
TextToSpeech_Sweeping ==
    \E authorization \in AuthorizationHeaders :
        LET auth == require_session(authorization, SESSION_SECRET, clock)
            rec == [NoRecord EXCEPT !.op = "tts", !.at = clock,
                        !.auth = authorization, !.authOk = auth.ok]
        IN  /\ Idle
            /\ session_nonces' = cleanup_nonces(session_nonces, clock)
            /\ UNCHANGED <<config, clock, nticks, genExpiry,
                           consumeHistory, uncleaned, tokensIssued, tokens>>
            /\ IF ~auth.ok
               THEN last' = Responded(rec, http_exception_handler(auth.exc))
               ELSE \/ \* the body has no "text" string
                       last' = Responded(rec, validation_exception_handler)
                    \/ \E text \in Texts :
                       \E up \in (IF IsBlank(text) THEN {UpstreamOk}
                                  ELSE UpstreamOutcomes) :
                       LET done == Synthesized[text, up]
                       IN  last' = Responded(
                               [rec EXCEPT !.hasText = TRUE, !.text = text,
                                    !.upstream = done.upstream, !.up = up],
                               done.resp)

\* POST /api/text-to-speech: Depends(require_session), the TTSRequest body,
\* then synthesize
TextToSpeech ==
    \E authorization \in AuthorizationHeaders :
        LET auth == require_session(authorization, SESSION_SECRET, clock)
            rec == [NoRecord EXCEPT !.op = "tts", !.at = clock,
                        !.auth = authorization, !.authOk = auth.ok]
        IN  /\ Idle
            /\ UNCHANGED <<config, session_nonces, clock, nticks, genExpiry,
                           consumeHistory, uncleaned, tokensIssued, tokens>>
            /\ IF ~auth.ok
               THEN last' = Responded(rec, http_exception_handler(auth.exc))
               ELSE \/ \* the body has no "text" string
                       last' = Responded(rec, validation_exception_handler)
                    \/ \E text \in Texts :
                       \E up \in (IF IsBlank(text) THEN {UpstreamOk}
                                  ELSE UpstreamOutcomes) :
                       LET done == Synthesized[text, up]
                       IN  last' = Responded(
                               [rec EXCEPT !.hasText = TRUE, !.text = text,
                                    !.upstream = done.upstream, !.up = up],
                               done.resp)

\* GET /api/metadata: deepgram.toml is read and parsed, or that fails
GetMetadata ==
    \E readable \in BOOLEAN :
        /\ Idle
        /\ last' = Responded([NoRecord EXCEPT !.op = "metadata", !.at = clock],
                        IF readable THEN OkResponse
                        ELSE http_exception_handler(
                                 HTTPExceptionStr(500, MSG_METADATA_FAILED)))
        /\ UNCHANGED <<config, session_nonces, clock, nticks, genExpiry,
                       consumeHistory, uncleaned, tokensIssued, tokens>>

Next ==
    \/ Tick
    \/ ServeIndex
    \/ GetSession
    \/ GetSessionConcurrent
    \/ TextToSpeech
    \/ GetMetadata
    \/ Respond

Spec == Init /\ [][Next]_vars

\* ------------------------------------------------- the nonce store alone
\* generate_nonce, consume_nonce and cleanup_nonces called in any order and
\* at any time, as the handlers of a gated process could call them
StoreInit ==
    /\ Init
    /\ REQUIRE_NONCE
    /\ index_html_template

\* generate_nonce()
Generate ==
    LET nonce == Cardinality(Generated) + 1
        store == generate_nonce(session_nonces, nonce, clock)
    IN  /\ nonce \in NonceIds
        /\ session_nonces' = store
        /\ genExpiry' = [genExpiry EXCEPT ![nonce] = store[nonce]]
        /\ uncleaned' = generate_nonce(uncleaned, nonce, clock)
        /\ last' = [NoRecord EXCEPT !.op = "generate", !.nonce = nonce,
                                    !.at = clock]
        /\ UNCHANGED <<config, clock, nticks, consumeHistory, tokensIssued,
                       tokens>>

\* consume_nonce(nonce) for any string a caller can pass
Consume ==
    \E nonce \in HeaderValues \ {NoHeader} :
        LET c == consume_nonce(session_nonces, nonce, clock)
            tracked == nonce \in NonceIds
        IN  /\ session_nonces' = c.store
            /\ uncleaned' = consume_nonce(uncleaned, nonce, clock).store
            /\ consumeHistory' = IF tracked
                    THEN [consumeHistory EXCEPT ![nonce] =
                            IF c.result \/ @ = "true" THEN "true" ELSE "false"]
                    ELSE consumeHistory
            /\ last' = [NoRecord EXCEPT !.op = "consume", !.nonce = nonce,
                            !.at = clock, !.consumeCalled = TRUE,
                            !.found = nonce \in DOMAIN session_nonces,
                            !.consumed = c.result,
                            !.prior = IF tracked THEN consumeHistory[nonce]
                                      ELSE "none"]
            /\ UNCHANGED <<config, clock, nticks, genExpiry, tokensIssued,
                           tokens>>

\* cleanup_nonces()
Cleanup ==
    /\ session_nonces' = cleanup_nonces(session_nonces, clock)
    /\ last' = [NoRecord EXCEPT !.op = "cleanup", !.at = clock]
    /\ UNCHANGED <<config, clock, nticks, genExpiry, consumeHistory,
                   uncleaned, tokensIssued, tokens>>

StoreNext ==
    \/ Tick
    \/ Generate
    \/ Consume
    \/ Cleanup

StoreSpec == StoreInit /\ [][StoreNext]_vars

\* ================================================================ claims
\* the token was signed by this process: a well-formed JWT whose HS256
\* signature verifies under SESSION_SECRET
SignedHere(token) ==
    /\ token.fmt = "jwt"
    /\ token.sig = HS256(SESSION_SECRET, token.iat, token.exp)

\* the last request was a gated GET /api/session that called consume_nonce
\* on a nonce of the store's own making
ConsumedGenerated ==
    /\ last.op = "session"
    /\ last.consumeCalled
    /\ last.nonce \in Generated

\* the nonce presented by the last GET /api/session was generated, had not
\* been presented before and was presented before its expiry
FreshNoncePresented ==
    /\ last.op = "session"
    /\ last.nonce \in Generated
    /\ last.prior = "none"
    /\ last.at < genExpiry[last.nonce]

IsInvalidNonce403 ==
    /\ last.status = 403
    /\ last.type = "AuthenticationError"
    /\ last.code = "INVALID_NONCE"
    /\ ~last.issued

\* C1: single-use nonce.  For a generated nonce, the first consume_nonce
\* call returns True when it happens before the nonce's expiry, and once a
\* call has returned True every later call returns False, after the expiry
\* too: consume_nonce never returns True twice for one nonce.
C1_SingleUse ==
    ConsumedGenerated =>
        /\ (last.prior = "none" /\ last.at < genExpiry[last.nonce])
                => last.consumed
        /\ last.prior = "true" => ~last.consumed

\* C1 witness: a nonce consumed in time is presented again after its expiry
\* and refused
C1_Witness ==
    /\ ConsumedGenerated
    /\ last.prior = "true"
    /\ last.at >= genExpiry[last.nonce]
    /\ ~last.consumed

\* C2: no double consumption.  In gated mode a request that was in flight
\* while another request with the same nonce was granted a token gets no
\* token: consume_nonce returns False for it and it is answered 403
\* INVALID_NONCE.
C2_NoDoubleConsumption ==
    (REQUIRE_NONCE /\ last.op = "session" /\ last.raced) =>
        /\ last.consumeCalled
        /\ ~last.consumed
        /\ IsInvalidNonce403

\* C2 witness: the loser of such a race has been answered
C2_Witness ==
    /\ REQUIRE_NONCE
    /\ last.op = "session"
    /\ last.raced
    /\ last.nonce \in Generated
    /\ last.status = 403

\* C3: in gated mode get_session returns a token only if consume_nonce
\* returned True, and a missing, empty, unknown, already presented or
\* expired nonce is answered 403 AuthenticationError INVALID_NONCE.
C3_GatedNeedsNonce ==
    (REQUIRE_NONCE /\ last.op = "session") =>
        /\ last.issued => (last.consumeCalled /\ last.consumed)
        /\ ~FreshNoncePresented => IsInvalidNonce403

\* C3 witness: a generated nonce presented for the first time, but at or
\* after its expiry, is refused
C3_Witness ==
    /\ REQUIRE_NONCE
    /\ last.op = "session"
    /\ last.nonce \in Generated
    /\ last.prior = "none"
    /\ last.at >= genExpiry[last.nonce]
    /\ IsInvalidNonce403

\* C4: in bypass mode every GET /api/session is answered 200 with a token
\* signed by the process, whatever the nonce header holds.
C4_BypassAlwaysIssues ==
    (~REQUIRE_NONCE /\ last.op = "session") =>
        /\ last.status = 200
        /\ last.issued
        /\ SignedHere(last.token)
        /\ ~last.consumeCalled

\* C4 witness: bypass mode hands out a token for an expired nonce
C4_Witness ==
    /\ ~REQUIRE_NONCE
    /\ last.op = "session"
    /\ last.nonce \in Generated
    /\ last.at >= genExpiry[last.nonce]
    /\ last.issued

\* the last request was a POST /api/text-to-speech with a Bearer header
BearerPresented ==
    /\ last.op = "tts"
    /\ last.auth.present
    /\ last.auth.bearer

\* C5: require_session accepts a bearer token iff it was signed with the
\* process's secret and is presented strictly before its expiry instant; a
\* token of the process is accepted up to 3599 s after its issued-at and
\* rejected with INVALID_TOKEN from 3601 s after it.
C5_TokenAcceptance ==
    BearerPresented =>
        LET token == last.auth.token
        IN  /\ last.authOk <=>
                (SignedHere(token) /\ last.at < Ticks(token.exp))
            /\ (SignedHere(token) /\ last.at <= Ticks(token.iat + JWT_EXPIRY - 1))
                    => last.authOk
            /\ (SignedHere(token) /\ last.at >= Ticks(token.iat + JWT_EXPIRY + 1))
                    => (~last.authOk /\ last.status = 401
                        /\ last.code = "INVALID_TOKEN")

\* C5 witness: a token of the process is rejected 3601 s or more after its
\* issued-at
C5_Witness ==
    /\ BearerPresented
    /\ SignedHere(last.auth.token)
    /\ last.at >= Ticks(last.auth.token.iat + JWT_EXPIRY + 1)
    /\ last.code = "INVALID_TOKEN"

\* C6: the upstream is called only for a POST /api/text-to-speech whose
\* bearer token is signed by the process and not expired.
C6_UpstreamNeedsSession ==
    last.upstream =>
        /\ BearerPresented
        /\ SignedHere(last.auth.token)
        /\ last.at < Ticks(last.auth.token.exp)

\* C6 witness: the upstream has been called
C6_Witness ==
    /\ last.op = "tts"
    /\ last.upstream
    /\ last.status = 200

\* C7: a request with a valid token and an empty or whitespace-only text is
\* answered 400 ValidationError and does not reach the upstream.
C7_BlankTextIs400 ==
    (last.op = "tts" /\ last.authOk /\ last.hasText /\ IsBlank(last.text)) =>
        /\ last.status = 400
        /\ last.type = "ValidationError"
        /\ ~last.upstream

\* C8: require_session rejects with 401 AuthenticationError and one code:
\* MISSING_TOKEN without an Authorization header or without the Bearer
\* prefix, INVALID_TOKEN with the invalid-token message for a malformed or
\* wrongly signed token, INVALID_TOKEN with the session-expired message for
\* a token of the process whose expiry has passed.
C8_RejectionCodes ==
    last.op = "tts" =>
        LET token == last.auth.token
            missing == ~BearerPresented
            invalid == BearerPresented /\ ~SignedHere(token)
            expired == BearerPresented /\ SignedHere(token)
                       /\ last.at >= Ticks(token.exp)
            Is401(code, message) ==
                /\ ~last.authOk
                /\ last.status = 401
                /\ last.type = "AuthenticationError"
                /\ last.code = code
                /\ last.message = message
        IN  /\ missing => Is401("MISSING_TOKEN", MSG_MISSING_TOKEN)
            /\ invalid => Is401("INVALID_TOKEN", MSG_INVALID_TOKEN)
            /\ expired => Is401("INVALID_TOKEN", MSG_SESSION_EXPIRED)
            /\ ~last.authOk => (missing \/ invalid \/ expired)

\* C8 witness: an expired token of the process is told that the session
\* expired
C8_Witness ==
    /\ BearerPresented
    /\ SignedHere(last.auth.token)
    /\ last.status = 401
    /\ last.message = MSG_SESSION_EXPIRED

\* C9: when the upstream call fails, the answer is 400 TEXT_TOO_LONG only
\* for a text-length failure, and any other failure is answered 500
\* SynthesisError SYNTHESIS_FAILED with a message that holds none of the
\* upstream's text.
C9_UpstreamFailureCodes ==
    (last.op = "tts" /\ last.upstream /\ ~last.up.ok) =>
        /\ (last.status = 400 /\ last.code = "TEXT_TOO_LONG")
                => last.up.kind = "text_length"
        /\ last.up.kind = "other" =>
                /\ last.status = 500
                /\ last.type = "SynthesisError"
                /\ last.code = "SYNTHESIS_FAILED"
                /\ ~Contains(last.message, last.up.message)

C11_ConsumeFrame ==
    [][last'.op = "consume" =>
        LET nonce == last'.nonce
            others == DOMAIN session_nonces \ {nonce}
        IN  /\ nonce \notin DOMAIN session_nonces =>
                    /\ ~last'.consumed
                    /\ session_nonces' = session_nonces
            /\ (nonce \in DOMAIN session_nonces
                    /\ clock >= session_nonces[nonce]) =>
                    /\ ~last'.consumed
                    /\ DOMAIN session_nonces' = others
                    /\ \A k \in others : session_nonces'[k] = session_nonces[k]
    ]_vars

\* C11 witness: an expired nonce that was still in the store has been
\* consumed while another entry stayed
C11_Witness ==
    /\ last.op = "consume"
    /\ last.found
    /\ ~last.consumed
    /\ last.at >= genExpiry[last.nonce]
    /\ last.nonce \notin DOMAIN session_nonces
    /\ session_nonces # EmptyStore

\* C12: cleanup cadence does not affect correctness.  Every consume_nonce
\* call returns what the same call returns in the run of the same
\* generate_nonce and consume_nonce calls in which cleanup_nonces never ran,
\* whenever cleanup_nonces ran in between; the two stores differ only in
\* entries the cleaned one has dropped.
C12_CleanupCadence ==
    [][/\ last'.op = "consume" =>
            last'.consumed = consume_nonce(uncleaned, last'.nonce, clock).result
       /\ DOMAIN session_nonces' \subseteq DOMAIN uncleaned'
       /\ \A k \in DOMAIN session_nonces' : session_nonces'[k] = uncleaned'[k]
    ]_vars

\* C12 witness: consume_nonce has been called on a nonce that cleanup_nonces
\* had evicted and that the uncleaned store still held
C12_Witness ==
    /\ last.op = "consume"
    /\ last.nonce \in Generated
    /\ last.prior = "none"
    /\ ~last.found
    /\ ~last.consumed

\* C13: token validation is stateless.  A POST /api/text-to-speech, accepted
\* or rejected by require_session, leaves the nonce store, the secret and
\* the rest of the server's state as they were; whether a token is accepted
\* depends on its signature and on the clock against its expiry alone, not
\* on earlier presentations, so it is accepted every time until it expires.
C13_StatelessValidation ==
    [][last'.op = "tts" =>
        LET token == last'.auth.token
        IN  /\ UNCHANGED <<REQUIRE_NONCE, SESSION_SECRET, index_html_template,
                           session_nonces>>
            /\ BearerPresented' =>
                    (last'.authOk <=>
                        (SignedHere(token) /\ clock < Ticks(token.exp)))
    ]_vars

\* C13 witness: a token has been accepted in the last tick before its
\* expiry, with nonces in the store
C13_Witness ==
    /\ last.op = "tts"
    /\ last.authOk
    /\ last.at + 1 = Ticks(last.auth.token.exp)
    /\ session_nonces # EmptyStore

\* the kinds of error of the contract
ErrorTypes == {"AuthenticationError", "ValidationError", "SynthesisError"}

\* C14: every error response of an endpoint, whatever its status (401, 403,
\* 400, 404, 500) and whether it was raised with an "error" object, with a
\* plain string detail or by request validation, has a body
\* {"error": {type, code, message}}: a type of the contract, a code and a
\* message.  A body without the "error" object has neither type nor code.
C14_ErrorShape ==
    last.status >= 400 =>
        /\ last.status \in {400, 401, 403, 404, 500}
        /\ last.type \in ErrorTypes
        /\ last.code # ""
        /\ last.message # <<>>

\* C14 witness: an error raised with a plain string detail has been answered
C14_Witness ==
    /\ last.status \in {404, 500}
    /\ last.op \in {"index", "metadata", "tts"}
    /\ last.type = "SynthesisError"
    /\ last.code = "SYNTHESIS_FAILED"

C16_StoreConsistent ==
    /\ DOMAIN session_nonces \subseteq Generated
    /\ \A k \in DOMAIN session_nonces :
            /\ session_nonces[k] = genExpiry[k]
            /\ consumeHistory[k] = "none"
    /\ \A k \in Generated :
            (consumeHistory[k] = "none" /\ clock < genExpiry[k])
                => k \in DOMAIN session_nonces

\* C16 witness: two concurrent requests have raced for one nonce while the
\* store holds another nonce that is unexpired
C16_Witness ==
    /\ REQUIRE_NONCE
    /\ \E k \in Generated : consumeHistory[k] = "true"
    /\ \E k \in DOMAIN session_nonces : clock < session_nonces[k]
    /\ last.op = "session"
    /\ last.raced

\* the nonces that a consume_nonce call has accepted
Exchanged == {k \in Generated : consumeHistory[k] = "true"}

\* C17: when the nonce is required, every token issued stands for a nonce of
\* its own that a page serve generated and that this issuance consumed: the
\* tokens issued are as many as the nonces exchanged and never more than the
\* nonces generated, and a request is given a token only for a generated
\* nonce never presented before, which it takes out of the store.  So a
\* client whose token has expired gets a new one only with a new nonce.
C17_TokenPerNonce ==
    REQUIRE_NONCE =>
        /\ tokensIssued = Cardinality(Exchanged)
        /\ tokensIssued <= Cardinality(Generated)
        /\ (last.op = "session" /\ last.issued) =>
                /\ last.nonce \in Exchanged
                /\ last.prior = "none"
                /\ last.consumed
                /\ last.nonce \notin DOMAIN session_nonces

\* C17 witness: a second handshake has been completed a token lifetime or
\* more after the start, each token for a nonce of its own
C17_Witness ==
    /\ REQUIRE_NONCE
    /\ last.op = "session"
    /\ last.issued
    /\ last.at >= Ticks(JWT_EXPIRY)
    /\ tokensIssued = 2
    /\ Cardinality(Generated) = 2

\* C18: get_session changes the nonce store only through consume_nonce and
\* only when the nonce is required.  Without the requirement a GET
\* /api/session leaves the store as it was and issues a token, also when it
\* sends a nonce that is in the store; with the requirement and a missing
\* or empty header it is answered 403 INVALID_NONCE with the store as it
\* was; and whenever the store changes, the nonce sent is what was removed.
C18_StoreOnlyByConsume ==
    [][last'.op = "session" =>
        /\ ~REQUIRE_NONCE =>
                /\ session_nonces' = session_nonces
                /\ ~last'.consumeCalled
                /\ last'.issued
        /\ (REQUIRE_NONCE /\ last'.nonce \in {NoHeader, EmptyHeader}) =>
                /\ session_nonces' = session_nonces
                /\ ~last'.consumeCalled
                /\ IsInvalidNonce403'
        /\ session_nonces' # session_nonces =>
                /\ REQUIRE_NONCE
                /\ last'.consumeCalled
                /\ session_nonces' = Without(session_nonces, last'.nonce)
    ]_vars

\* C18 witness: without the requirement a request has sent a nonce that is
\* in the store and has been given a token, the nonce still in the store
C18_Witness ==
    /\ ~REQUIRE_NONCE
    /\ last.op = "session"
    /\ last.issued
    /\ last.nonce \in DOMAIN session_nonces

====
